---- MODULE Spec2Model ----
(***************************************************************************)
(* autorun: watch files and directory trees with inotify and run a command *)
(* on every event.  The model covers src/autorun.cpp: the inotify wrapper  *)
(* (Watch Table), the fts walk, the epoll wait loop, on_event and main,    *)
(* together with the kernel's side of the interface (watch set, event      *)
(* queue, filesystem) as far as the program observes it.                   *)
(***************************************************************************)
EXTENDS Integers, Sequences, FiniteSets, TLC

\* ------------------------------------------------------------------ bounds
\* Number of out-of-band filesystem operations in one behaviour.
MaxEnvOps == 2
\* How many of them may fall before the program has entered its loop.
MaxSetupOps == 1
\* Kernel limit on queued events (fs.inotify.max_queued_events).
MaxQueued == 2

\* ------------------------------------------------------- program constants
\* sizeof(struct inotify_event): wd, mask, cookie, len (4 x 32 bit).
EventHeaderSize == 16
\* char buf[10 * sizeof(struct inotify_event)]
BufRecords == 10
BufSize == BufRecords * EventHeaderSize
\* read(fd, buf, sizeof(buf) - 1)
ReadCount == BufSize - 1
\* constexpr bool debug = DEBUG; the build sets it to true.
debug == TRUE
\* the mask of every watch: IN_MOVE | IN_MODIFY | IN_CREATE | IN_DELETE
WatchMask == {"IN_MOVED_FROM", "IN_MOVED_TO", "IN_MODIFY", "IN_CREATE", "IN_DELETE"}

\* ------------------------------------------------------------- the universe
\* A name of 128 bytes: its record does not fit in the read buffer.
LongName == "nnnnnnnnnnnnnnnnnnnnnnnnnnnnnnnnnnnnnnnnnnnnnnnnnnnnnnnnnnnnnnnnnnnnnnnnnnnnnnnnnnnnnnnnnnnnnnnnnnnnnnnnnnnnnnnnnnnnnnnnnnnnnnnn"
\* A name of 100 bytes: its record is 128 bytes, so that with a 16-byte record
\* behind it a read returns 144 bytes and has no room left for one more header.
MidName == "mmmmmmmmmmmmmmmmmmmmmmmmmmmmmmmmmmmmmmmmmmmmmmmmmmmmmmmmmmmmmmmmmmmmmmmmmmmmmmmmmmmmmmmmmmmmmmmmmmmm"
Names == {"f", "sub", MidName, LongName}
RootDir == "d"
RootFile == "a"

PathOf(parent, name) == IF parent = "" THEN name ELSE parent \o "/" \o name

\* The entries the outside world may create, modify and remove.
Universe ==
    { [parent |-> "",      name |-> RootDir,  type |-> "dir"],
      [parent |-> "",      name |-> RootFile, type |-> "reg"],
      [parent |-> "d",     name |-> "sub",    type |-> "dir"],
      [parent |-> "d",     name |-> "f",      type |-> "reg"],
      [parent |-> "d",     name |-> MidName,  type |-> "reg"],
      [parent |-> "d",     name |-> LongName, type |-> "reg"],
      [parent |-> "d/sub", name |-> "f",      type |-> "reg"] }

UPath(u) == PathOf(u.parent, u.name)

Put(f, k, v) == [x \in (DOMAIN f) \cup {k} |-> IF x = k THEN v ELSE f[x]]
Drop(f, k) == [x \in (DOMAIN f) \ {k} |-> f[x]]

Inode(i, t, r) == [ino |-> i, type |-> t, readable |-> r]

\* ---------------------------------------------------------------- kernel
\* inotify_add_watch(2): one watch per inode; a path naming an inode that is
\* already watched returns the existing descriptor; new descriptors are
\* handed out in increasing order.
inotify_add_watch(kw, nwd, files, path) ==
    IF path \notin DOMAIN files
    THEN [wd |-> -1, kw |-> kw, nextwd |-> nwd, errno |-> "ENOENT"]
    ELSE IF ~files[path].readable
    THEN [wd |-> -1, kw |-> kw, nextwd |-> nwd, errno |-> "EACCES"]
    ELSE IF \E w \in DOMAIN kw : kw[w] = files[path].ino
    THEN [wd |-> CHOOSE w \in DOMAIN kw : kw[w] = files[path].ino,
          kw |-> kw, nextwd |-> nwd, errno |-> "OK"]
    ELSE [wd |-> nwd, kw |-> Put(kw, nwd, files[path].ino),
          nextwd |-> nwd + 1, errno |-> "OK"]

\* record length: header plus the name padded to a multiple of the header size
PaddedNameLen(name) ==
    IF name = "" THEN 0
    ELSE ((Len(name) + 1 + EventHeaderSize - 1) \div EventHeaderSize) * EventHeaderSize

EventSize(ev) == EventHeaderSize + PaddedNameLen(ev.name)

OverflowEvent == [wd |-> -1, mask |-> {"IN_Q_OVERFLOW"}, name |-> ""]

\* queueing of one event.  At the limit the event is dropped and one overflow
\* record is queued unless one is queued already; below the limit an event
\* equal to the last queued one is merged into it.
Enqueue(q, ev) ==
    IF Len(q) >= MaxQueued
    THEN IF \E i \in 1..Len(q) : q[i] = OverflowEvent THEN q
         ELSE Append(q, OverflowEvent)
    ELSE IF q # <<>> /\ q[Len(q)] = ev THEN q
    ELSE Append(q, ev)

\* an event of the given type on inode ino reaches the queue if ino is watched
Emit(q, kw, ino, mask, name) ==
    IF \E w \in DOMAIN kw : kw[w] = ino
    THEN Enqueue(q, [wd |-> CHOOSE w \in DOMAIN kw : kw[w] = ino,
                     mask |-> mask, name |-> name])
    ELSE q

\* read(2) on the inotify descriptor: the number of whole records at the head
\* of the queue that fit in count bytes
RECURSIVE FitCount(_, _)
FitCount(q, room) ==
    IF q = <<>> \/ EventSize(Head(q)) > room THEN 0
    ELSE 1 + FitCount(Tail(q), room - EventSize(Head(q)))

RECURSIVE BytesOf(_)
BytesOf(recs) == IF recs = <<>> THEN 0 ELSE EventSize(Head(recs)) + BytesOf(Tail(recs))

\* ------------------------------------------------------- class inotify
\* faulty variant of add_watch: the watch is requested but not recorded
add_watch_nostore(st, files, filename) ==
    LET r == inotify_add_watch(st.kw, st.nextwd, files, filename)
    IN  [st EXCEPT !.kw = r.kw,
                   !.nextwd = r.nextwd,
                   !.errno = IF r.wd = -1 THEN r.errno ELSE @,
                   !.ok = (r.wd >= 0),
                   !.wd = r.wd,
                   !.log = Append(@, [op |-> "arm", path |-> filename,
                                      wd |-> r.wd, ok |-> (r.wd >= 0)])]

\* faulty variant of add_watch: an existing entry is kept (insert, not assign)
add_watch_keepfirst(st, files, filename) ==
    LET r == inotify_add_watch(st.kw, st.nextwd, files, filename)
    IN  [st EXCEPT !.watches = IF r.wd \in DOMAIN @ THEN @ ELSE Put(@, r.wd, filename),
                   !.kw = r.kw,
                   !.nextwd = r.nextwd,
                   !.errno = IF r.wd = -1 THEN r.errno ELSE @,
                   !.ok = (r.wd >= 0),
                   !.wd = r.wd,
                   !.log = Append(@, [op |-> "arm", path |-> filename,
                                      wd |-> r.wd, ok |-> (r.wd >= 0)])]

\* st is the inotify object with the kernel state its calls act on:
\*   watches (_watches), kw (kernel watch set), nextwd, errno,
\*   ok/wd (result of the last add_watch), log (calls made so far)
add_watch(st, files, filename) ==
    LET r == inotify_add_watch(st.kw, st.nextwd, files, filename)
    IN  [st EXCEPT !.watches = Put(@, r.wd, filename),
                   !.kw = r.kw,
                   !.nextwd = r.nextwd,
                   !.errno = IF r.wd = -1 THEN r.errno ELSE @,
                   !.ok = (r.wd >= 0),
                   !.wd = r.wd,
                   !.log = Append(@, [op |-> "arm", path |-> filename,
                                      wd |-> r.wd, ok |-> (r.wd >= 0)])]

\* std::map::operator[]: a missing key is inserted with an empty string
get_file(m, wd) ==
    IF wd \in DOMAIN m
    THEN [watches |-> m, path |-> m[wd]]
    ELSE [watches |-> Put(m, wd, ""), path |-> ""]

\* faulty variant of rm_targets: keys that are not valid descriptors are skipped
rm_targets_valid(m) == {w \in DOMAIN m : w >= 0}
\* the identities ~inotify passes to inotify_rm_watch: every key of _watches
rm_targets(m) == DOMAIN m

\* inotify_rm_watch(2) on k = [kw, queue, errno]: a watch that exists is removed
\* and its IN_IGNORED record queued; anything else fails with EINVAL
inotify_rm_watch(k, w) ==
    IF w \in DOMAIN k.kw
    THEN [k EXCEPT !.kw = Drop(@, w),
                   !.queue = Enqueue(@, [wd |-> w, mask |-> {"IN_IGNORED"}, name |-> ""])]
    ELSE [k EXCEPT !.errno = "EINVAL"]

\* the next entry of the loop of ~inotify: the smallest key not yet visited
next_rm(targets, visited) ==
    CHOOSE x \in targets \ visited : \A y \in targets \ visited : x <= y

\* ------------------------------------------------------------- fts walk
\* The state of the FTS stream is the sequence of what fts_read has still to
\* do: return an entry that is not taken for a directory ("file"), return an
\* entry whose lstat failed ("ns"), return a directory in pre-order ("pre"),
\* read the entries of a directory it has returned ("desc"), return a
\* directory in post-order ("post").  A directory
\* carries the number of subdirectories it had when fts stat'ed it
\* (st_nlink - 2): with FTS_PHYSICAL | FTS_NOSTAT, line 371, fts stats the
\* entries of a directory only while that number is not used up.
SubdirCount(files, dir) ==
    Cardinality({u \in Universe : /\ u.parent = dir
                                  /\ UPath(u) \in DOMAIN files
                                  /\ files[UPath(u)].type = "dir"})

\* an entry fts returns without stat (FTS_NSOK): taken for a non-directory
FtsNoStat(path) == [path |-> path, kind |-> "file", nlinks |-> 0]

\* an entry whose lstat failed (FTS_NS): returned once, not descended into
FtsFailedStat(path) == [path |-> path, kind |-> "ns", nlinks |-> 0]

\* an entry the listing of its directory reports as a directory (d_type),
\* which fts has not classified yet
FtsListed(path) == [path |-> path, kind |-> "listed", nlinks |-> 0]

\* a directory fts returns again after its entries (FTS_DP)
FtsPost(path) == [path |-> path, kind |-> "post", nlinks |-> 0]

\* fts_stat: the entry as lstat finds it now
FtsItem(files, path) ==
    IF path \notin DOMAIN files THEN FtsFailedStat(path)
    ELSE IF files[path].type = "dir"
    THEN [path |-> path, kind |-> "pre", nlinks |-> SubdirCount(files, path)]
    ELSE FtsNoStat(path)

\* errno after fts_stat: a failed lstat leaves ENOENT
fts_stat_errno(files, path, e) == IF path \notin DOMAIN files THEN "ENOENT" ELSE e

\* fts_open: one item per root; a root that does not exist is returned once
RECURSIVE FtsRoots(_, _)
FtsRoots(files, roots) ==
    IF roots = <<>> THEN <<>>
    ELSE <<FtsItem(files, Head(roots))>> \o FtsRoots(files, Tail(roots))

\* readdir: the entries a directory lists, in the order of the listing, each
\* with the type the listing gives it
RECURSIVE FtsChildren(_, _, _, _)
FtsChildren(files, dir, order, i) ==
    IF i > Len(order) THEN <<>>
    ELSE LET p == PathOf(dir, order[i])
             rest == FtsChildren(files, dir, order, i + 1)
         IN  IF p \notin DOMAIN files THEN rest
             ELSE IF files[p].type = "dir" THEN <<FtsListed(p)>> \o rest
             ELSE <<FtsNoStat(p)>> \o rest

\* the loop of fts_build over the listed entries.  b holds the children built
\* so far (kids), the listed entries still to look at (left) and the number of
\* subdirectories still to account for (nlinks).  An entry is stat'ed only if
\* the listing says it is a directory and nlinks is not used up; any other
\* entry is taken without a system call.  The loop runs up to the next entry
\* that needs lstat.
RECURSIVE FtsBuild(_)
FtsBuild(b) ==
    IF b.left = <<>> THEN b
    ELSE IF Head(b.left).kind = "listed" /\ b.nlinks # 0 THEN b
    ELSE FtsBuild([b EXCEPT !.kids = Append(@, FtsNoStat(Head(b.left).path)),
                            !.left = Tail(@)])

\* the lstat of the entry fts_build has reached, and the loop from there on;
\* every directory found uses up one of nlinks, a failed lstat does not
FtsStat(files, b) ==
    LET it == FtsItem(files, Head(b.left).path)
    IN  FtsBuild([kids |-> Append(b.kids, it),
                  left |-> Tail(b.left),
                  nlinks |-> IF it.kind = "pre" THEN b.nlinks - 1 ELSE b.nlinks])

\* no fts_build under way
NoBuild == [kids |-> <<>>, left |-> <<>>, nlinks |-> 0]

\* fts_read descends into the directory it returned last: fts_build opens it
\* and reads its entries as the directory lists them now; a directory that
\* cannot be read, or is gone, has no entries
FtsDescend(files, todo, order) ==
    LET dir == Head(todo).path
        readable == dir \in DOMAIN files /\ files[dir].type = "dir"
                    /\ files[dir].readable
    IN  FtsBuild([kids |-> <<>>,
                  left |-> IF readable THEN FtsChildren(files, dir, order, 1)
                           ELSE <<>>,
                  nlinks |-> Head(todo).nlinks])

\* what is left to do after fts_read has returned the head of todo
FtsAfter(todo) ==
    IF Head(todo).kind = "pre"
    THEN <<[Head(todo) EXCEPT !.kind = "desc"]>> \o Tail(todo)
    ELSE Tail(todo)

\* errno after fts_open succeeded: the lstat of a root that is gone leaves ENOENT
fts_open_errno(files, roots, e) ==
    IF \E i \in 1..Len(roots) : roots[i] \notin DOMAIN files THEN "ENOENT" ELSE e

\* errno after the first step of fts_read: 0 at the end of the walk; the error
\* of opendir when the directory to descend into is gone or cannot be read
fts_read_errno(files, todo, e) ==
    IF todo = <<>> THEN "OK"
    ELSE IF Head(todo).kind # "desc" THEN e
    ELSE IF Head(todo).path \notin DOMAIN files THEN "ENOENT"
    ELSE IF ~files[Head(todo).path].readable THEN "EACCES"
    ELSE e

\* watch_dir(): -1 when fts_open fails, 0 otherwise
watch_dir_rc(ftsOpened) == IF ~ftsOpened THEN -1 ELSE 0

\* watch_file(): arm every file, false at the first failure
RECURSIVE watch_file(_, _, _)
watch_file(st, files, names) ==
    IF names = <<>> THEN [st EXCEPT !.ok = TRUE]
    ELSE LET s == add_watch(st, files, Head(names))
         IN  IF ~s.ok THEN s ELSE watch_file(s, files, Tail(names))

\* ------------------------------------------------------------- on_event
\* if (event->mask & IN_IGNORED)
RewatchIgnored(ev) == "IN_IGNORED" \in ev.mask

\* if (event->mask & (IN_CREATE | IN_ISDIR))
RewatchCreate(ev) == ev.mask \cap {"IN_CREATE", "IN_ISDIR"} # {}

\* the argument of the re-arm of line 342: the path the table holds
RearmPath(path, ev) == path

\* the argument of the arm of line 345
CreatedPath(path, ev) == path \o "/" \o ev.name

\* the records of one read that on_event looks at: event points at buf
Decoded(recs) == <<recs[1]>>

\* faulty variant of run_cmd: the command is started twice
run_cmd_twice(st) == [st EXCEPT !.log = Append(Append(@, [op |-> "cmd"]), [op |-> "cmd"])]
\* run_cmd(): system(cmd), once
run_cmd(st) == [st EXCEPT !.log = Append(@, [op |-> "cmd"])]

\* lines 341-345, the rewatch policy for one record.  Every record whose mask
\* has IN_CREATE or IN_ISDIR carries a name, so event->name is never read from
\* a record of length zero in the second arm.
rewatch(st, files, ev) ==
    LET s1 == IF RewatchIgnored(ev)
              THEN LET g == get_file(st.watches, ev.wd)
                   IN  add_watch([st EXCEPT !.watches = g.watches], files,
                                 RearmPath(g.path, ev))
              ELSE st
    IN  IF RewatchCreate(ev)
        THEN LET g == get_file(s1.watches, ev.wd)
             IN  add_watch([s1 EXCEPT !.watches = g.watches], files,
                           CreatedPath(g.path, ev))
        ELSE s1

\* faulty variant of report_and_run: a failed re-arm ends the handling of the
\* record before the command is run
report_and_run_abort(st, ev) ==
    IF RewatchIgnored(ev) /\ ~st.ok THEN st
    ELSE run_cmd(IF debug
                 THEN [st EXCEPT !.watches = get_file(st.watches, ev.wd).watches]
                 ELSE st)

\* lines 347-356: the debug output, which resolves the record's identity, and
\* the command
report_and_run(st, ev) ==
    run_cmd(IF debug
            THEN [st EXCEPT !.watches = get_file(st.watches, ev.wd).watches]
            ELSE st)

\* faulty variant of on_event_result: a failed add_watch stops the loop
on_event_result_strict(rc, st) == rc # -1 /\ st.ok
\* the value on_event returns to epoll::wait (running): false only for rc == -1
on_event_result(rc, st) == rc # -1

\* ----------------------------------------------------------- epoll::wait
\* if (rc == -1 && errno != EINTR) return;
WaitReturns(rc, e) == rc = -1 /\ e # "EINTR"
\* else if (errno == EINTR) continue;
WaitContinues(rc, e) == ~WaitReturns(rc, e) /\ e = "EINTR"

\* ------------------------------------------------------------------ state
VARIABLES
    pc,          \* position of the program: watch_dir, fts_read, fts_stat,
                 \* walk_arm, watch_file, wait, ev_rewatch, ev_run, cmd_run,
                 \* return, rm_watch, close, done
    ftsTodo,     \* the FTS stream: what fts_read has still to do
    ftsBuild,    \* the children fts_build is putting together inside fts_read
    cur,         \* iter->fts_path: the entry fts_read returned last
    held,        \* unlinked inodes another process still holds open
    dirnames,    \* cli_opts.dirnames
    filenames,   \* cli_opts.filenames
    watches,     \* inotify::_watches
    kw,          \* the kernel's watch set of the inotify instance: wd -> inode
    nextwd,      \* the next watch descriptor the kernel hands out
    errno,       \* errno
    fs,          \* the filesystem: path -> inode
    nextino,     \* the next inode number
    queue,       \* the kernel's event queue of the inotify instance
    mainRc,      \* rc in main
    waitRc,      \* rc in epoll::wait
    readRc,      \* rc of read in on_event
    cmdRc,       \* rc of run_cmd in on_event
    lastRead,    \* the records the last read returned
    hlog,        \* the calls made so far by the current operation of the
                 \* program (the walk, the file step, one call of on_event)
    cmdCount,    \* number of commands run
    reads,       \* number of reads of the event source
    opsLog,      \* the out-of-band filesystem operations so far, each with
                 \* whether it came before the program had set up its watches
    exitPath,    \* the return statement main left through
    skippedWake, \* a ready wake went by without a call of the handler
    rmCalled,    \* the identities passed to inotify_rm_watch by ~inotify
    closed,      \* the inotify descriptor is closed
    teardowns    \* number of runs of ~inotify

vars == <<pc, ftsTodo, ftsBuild, cur, held, dirnames, filenames, watches, kw, nextwd,
          errno,
          fs, nextino, queue, mainRc, waitRc, readRc, cmdRc, lastRead, hlog,
          cmdCount, reads, opsLog, exitPath, skippedWake, rmCalled, closed,
          teardowns>>

progVars == <<ftsTodo, ftsBuild, cur, watches, mainRc, waitRc, readRc, cmdRc, lastRead, hlog,
              cmdCount, reads, exitPath, skippedWake, rmCalled, closed, teardowns>>

\* the inotify object and the kernel state its calls act on, as one record,
\* at the start of an operation
St == [watches |-> watches, kw |-> kw, nextwd |-> nextwd, errno |-> errno,
       ok |-> TRUE, wd |-> 0, log |-> <<>>]

\* the same in the middle of an operation: the calls made so far and the
\* result of the last add_watch
StCont == [St EXCEPT !.log = hlog,
                     !.ok = \A i \in 1..Len(hlog) :
                               (hlog[i].op = "arm" /\ \A j \in (i + 1)..Len(hlog) :
                                                         hlog[j].op # "arm")
                               => hlog[i].ok]

CmdsIn(log) == Cardinality({i \in 1..Len(log) : log[i].op = "cmd"})

\* the filesystems main may start in: the roots exist (parse_opt checked them)
BaseFs == (RootDir :> Inode(1, "dir", TRUE)) @@ (RootFile :> Inode(2, "reg", TRUE))
FileFs == BaseFs @@ ("d/f" :> Inode(3, "reg", TRUE))
TreeFs == FileFs @@ ("d/sub" :> Inode(4, "dir", TRUE))
NoReadFs == [TreeFs EXCEPT !["d/f"].readable = FALSE]
NoReadFileFs == [BaseFs EXCEPT ![RootFile].readable = FALSE]
\* d/sub/f is a second hard link to the inode of d/f
LinkFs == TreeFs @@ ("d/sub/f" :> Inode(3, "reg", TRUE))

\* the command lines and filesystems a behaviour starts from
Starts == { [dirs |-> <<RootDir>>, files |-> <<>>, fs |-> BaseFs],
            [dirs |-> <<RootDir>>, files |-> <<>>, fs |-> FileFs],
            [dirs |-> <<RootDir>>, files |-> <<>>, fs |-> NoReadFs],
            [dirs |-> <<RootDir>>, files |-> <<>>, fs |-> LinkFs],
            [dirs |-> <<>>, files |-> <<RootFile>>, fs |-> BaseFs],
            [dirs |-> <<>>, files |-> <<RootFile>>, fs |-> NoReadFileFs],
            [dirs |-> <<RootDir>>, files |-> <<RootFile>>, fs |-> BaseFs] }

\* the order in which a directory lists its entries
Orders == {o \in [1..Cardinality(Names) -> Names] :
              \A i, j \in 1..Cardinality(Names) : o[i] = o[j] => i = j}

Init ==
    /\ pc = "watch_dir"
    /\ \E c \in Starts : dirnames = c.dirs /\ filenames = c.files /\ fs = c.fs
    /\ ftsTodo = <<>>
    /\ ftsBuild = NoBuild
    /\ cur = ""
    /\ held = {}
    /\ watches = <<>>
    /\ kw = <<>>
    /\ nextwd = 1
    /\ errno = "OK"
    /\ nextino = 5
    /\ queue = <<>>
    /\ mainRc = 0
    /\ waitRc = 0
    /\ readRc = 0
    /\ cmdRc = 0
    /\ lastRead = <<>>
    /\ hlog = <<>>
    /\ cmdCount = 0
    /\ reads = 0
    /\ opsLog = <<>>
    /\ exitPath = "none"
    /\ skippedWake = FALSE
    /\ rmCalled = {}
    /\ closed = FALSE
    /\ teardowns = 0

\* assignment of the inotify object and kernel state after a step
Commit(s) ==
    /\ watches' = s.watches
    /\ kw' = s.kw
    /\ nextwd' = s.nextwd
    /\ errno' = s.errno
    /\ hlog' = s.log
    /\ cmdCount' = cmdCount + CmdsIn(s.log)

\* ------------------------------------------------------------------- main
\* main, line 409, and watch_dir up to fts_open (lines 365-375)
MainWatchDir ==
    /\ pc = "watch_dir"
    /\ IF dirnames = <<>>
       THEN /\ pc' = "watch_file"
            /\ UNCHANGED <<ftsTodo, errno, hlog, mainRc, exitPath>>
       ELSE \E ftsOpened \in BOOLEAN :
              /\ hlog' = <<>>
              /\ IF ftsOpened
                 THEN /\ ftsTodo' = FtsRoots(fs, dirnames)
                      /\ errno' = fts_open_errno(fs, dirnames, errno)
                      /\ pc' = "fts_read"
                      /\ UNCHANGED <<mainRc, exitPath>>
                 ELSE /\ errno' = "ENOMEM"
                      /\ mainRc' = watch_dir_rc(ftsOpened)
                      /\ pc' = "return"
                      /\ exitPath' = "watch_dir"
                      /\ UNCHANGED ftsTodo
    /\ UNCHANGED <<ftsBuild, cur, held, dirnames, filenames, watches, kw, nextwd, fs,
                   nextino, queue, waitRc, readRc, cmdRc, lastRead, cmdCount, reads,
                   opsLog, skippedWake, rmCalled, closed, teardowns>>

\* fts_read hands an entry to traverse: the head of todo
FtsReturn(todo) ==
    /\ cur' = Head(todo).path
    /\ ftsTodo' = FtsAfter(todo)
    /\ pc' = "walk_arm"

\* traverse, line 126: fts_read returns the next entry, or NULL at the end of
\* the walk, and then watch_dir returns 0 (lines 378-383).  To descend into a
\* directory fts_read lists it; when an entry of the listing needs lstat, that
\* call is a step of its own.
TraverseRead ==
    /\ pc = "fts_read"
    /\ IF ftsTodo = <<>>
       THEN /\ mainRc' = watch_dir_rc(TRUE)
            /\ pc' = "watch_file"
            /\ UNCHANGED <<ftsTodo, ftsBuild, cur>>
       ELSE IF Head(ftsTodo).kind # "desc"
       THEN /\ FtsReturn(ftsTodo)
            /\ UNCHANGED <<ftsBuild, mainRc>>
       ELSE \E order \in Orders :
              LET b == FtsDescend(fs, ftsTodo, order)
                  rest == <<FtsPost(Head(ftsTodo).path)>> \o Tail(ftsTodo)
              IN  IF b.left = <<>>
                  THEN /\ FtsReturn(b.kids \o rest)
                       /\ UNCHANGED <<ftsBuild, mainRc>>
                  ELSE /\ ftsBuild' = b
                       /\ ftsTodo' = rest
                       /\ pc' = "fts_stat"
                       /\ UNCHANGED <<cur, mainRc>>
    /\ errno' = fts_read_errno(fs, ftsTodo, errno)
    /\ UNCHANGED <<held, dirnames, filenames, watches, kw, nextwd, fs, nextino,
                   queue, waitRc, readRc, cmdRc, lastRead, hlog, cmdCount, reads,
                   opsLog, exitPath, skippedWake, rmCalled, closed, teardowns>>

\* traverse, line 126, inside fts_read: the lstat of one listed entry; after
\* the last one fts_read returns the first entry of the directory
TraverseStat ==
    /\ pc = "fts_stat"
    /\ LET b == FtsStat(fs, ftsBuild)
       IN  IF b.left = <<>>
           THEN /\ FtsReturn(b.kids \o ftsTodo)
                /\ ftsBuild' = NoBuild
           ELSE /\ ftsBuild' = b
                /\ UNCHANGED <<pc, cur, ftsTodo>>
    /\ errno' = fts_stat_errno(fs, Head(ftsBuild.left).path, errno)
    /\ UNCHANGED <<held, dirnames, filenames, watches, kw, nextwd, fs, nextino,
                   queue, mainRc, waitRc, readRc, cmdRc, lastRead, hlog, cmdCount,
                   reads, opsLog, exitPath, skippedWake, rmCalled, closed, teardowns>>

\* traverse, lines 130-136: add_watch for the entry; a failure ends traverse,
\* and watch_dir returns 0 (lines 378-383)
TraverseArm ==
    /\ pc = "walk_arm"
    /\ LET s == add_watch(StCont, fs, cur)
       IN  /\ Commit(s)
           /\ IF s.ok
              THEN /\ pc' = "fts_read"
                   /\ UNCHANGED <<ftsTodo, mainRc>>
              ELSE /\ ftsTodo' = <<>>
                   /\ mainRc' = watch_dir_rc(TRUE)
                   /\ pc' = "watch_file"
    /\ UNCHANGED <<ftsBuild, cur, held, dirnames, filenames, fs, nextino, queue,
                   waitRc, readRc, cmdRc, lastRead, reads, opsLog, exitPath,
                   skippedWake, rmCalled, closed, teardowns>>

\* main, lines 418-425: the file step and the registration with epoll
MainWatchFile ==
    /\ pc = "watch_file"
    /\ IF filenames = <<>>
       THEN /\ pc' = "wait"
            /\ UNCHANGED <<watches, kw, nextwd, errno, hlog, cmdCount, mainRc, exitPath>>
       ELSE LET s == watch_file(St, fs, filenames)
            IN  /\ Commit(s)
                /\ mainRc' = IF s.ok THEN 1 ELSE 0
                /\ IF ~s.ok
                   THEN pc' = "return" /\ exitPath' = "watch_file"
                   ELSE pc' = "wait" /\ exitPath' = exitPath
    /\ UNCHANGED <<ftsTodo, ftsBuild, cur, held, dirnames, filenames, fs, nextino, queue, waitRc,
                   readRc, cmdRc, lastRead, reads, opsLog, skippedWake, rmCalled,
                   closed, teardowns>>

\* --------------------------------------------------- epoll::wait, on_event
\* on_event, lines 326-339, after a wake on the inotify descriptor: the read.
\* rc is a local of this call: it holds no result of run_cmd yet.
OnEventRead ==
    LET n == FitCount(queue, ReadCount)
        recs == SubSeq(queue, 1, n)
    IN  /\ reads' = reads + 1
        /\ hlog' = <<>>
        /\ cmdRc' = 0
        /\ UNCHANGED <<watches, kw, nextwd, cmdCount>>
        /\ IF n = 0
           THEN /\ readRc' = -1
                /\ lastRead' = <<>>
                /\ errno' = "EINVAL"
                /\ pc' = IF on_event_result(-1, St) THEN "wait" ELSE "return"
                /\ exitPath' = IF on_event_result(-1, St) THEN exitPath ELSE "loop"
                /\ UNCHANGED queue
           ELSE /\ readRc' = BytesOf(recs)
                /\ lastRead' = recs
                /\ queue' = SubSeq(queue, n + 1, Len(queue))
                /\ pc' = IF \E i \in 1..Len(Decoded(recs)) :
                               RewatchIgnored(Decoded(recs)[i])
                               \/ RewatchCreate(Decoded(recs)[i])
                         THEN "ev_rewatch" ELSE "ev_run"
                /\ UNCHANGED <<errno, exitPath>>

\* on_event, lines 341-345: the arm requests for the record
OnEventRewatch ==
    /\ pc = "ev_rewatch"
    /\ Commit(rewatch(StCont, fs, Head(Decoded(lastRead))))
    /\ pc' = "ev_run"
    /\ UNCHANGED <<ftsTodo, ftsBuild, cur, held, dirnames, filenames, fs, nextino, queue, mainRc,
                   waitRc, readRc, cmdRc, lastRead, reads, opsLog, exitPath,
                   skippedWake, rmCalled, closed, teardowns>>

\* on_event, lines 347-356: the debug output, and system() starts the command
OnEventRun ==
    /\ pc = "ev_run"
    /\ Commit(report_and_run(StCont, Head(Decoded(lastRead))))
    /\ pc' = "cmd_run"
    /\ UNCHANGED <<ftsTodo, ftsBuild, cur, held, dirnames, filenames, fs, nextino, queue, mainRc,
                   waitRc, readRc, cmdRc, lastRead, reads, opsLog, exitPath,
                   skippedWake, rmCalled, closed, teardowns>>

\* the wait status system() returns for a command that exits with 0 or with 1
CmdStatus == {0, 256}

\* on_event, lines 356-357: the command ends, system() returns its wait
\* status, return true
OnEventCmdEnd ==
    /\ pc = "cmd_run"
    /\ \E status \in CmdStatus : cmdRc' = status
    /\ pc' = IF on_event_result(readRc, StCont) THEN "wait" ELSE "return"
    /\ exitPath' = IF on_event_result(readRc, StCont) THEN exitPath ELSE "loop"
    /\ UNCHANGED <<ftsTodo, ftsBuild, cur, held, dirnames, filenames, watches, kw, nextwd, errno,
                   fs, nextino, queue, mainRc, waitRc, readRc, lastRead, hlog,
                   cmdCount, reads, opsLog, skippedWake, rmCalled, closed, teardowns>>

\* one iteration of the loop of epoll::wait, for a result of epoll_wait
EpollWait(rc, err) ==
    /\ pc = "wait"
    /\ waitRc' = rc
    /\ LET e == IF rc = -1 THEN err ELSE errno
       IN  IF WaitReturns(rc, e)
           THEN /\ pc' = "return"
                /\ exitPath' = "loop"
                /\ errno' = e
                /\ UNCHANGED <<watches, kw, nextwd, hlog, cmdCount, readRc, cmdRc,
                               lastRead, reads, queue, skippedWake>>
           ELSE IF WaitContinues(rc, e)
           THEN /\ errno' = e
                /\ skippedWake' = (skippedWake \/ rc >= 0)
                /\ UNCHANGED <<pc, exitPath, watches, kw, nextwd, hlog, cmdCount,
                               readRc, cmdRc, lastRead, reads, queue>>
           ELSE /\ OnEventRead
                /\ UNCHANGED skippedWake
    /\ UNCHANGED <<ftsTodo, ftsBuild, cur, held, dirnames, filenames, fs, nextino, mainRc, opsLog,
                   rmCalled, closed, teardowns>>

\* epoll_wait is interrupted by a signal
WaitInterrupted == EpollWait(-1, "EINTR")

\* epoll_wait fails otherwise
WaitFailed == EpollWait(-1, "EBADF")

\* epoll_wait reports the inotify descriptor readable
WaitReady == queue # <<>> /\ EpollWait(1, errno)

\* ---------------------------------------------------------------- ~inotify
\* lines 63-64, one turn of the loop of ~inotify: inotify_rm_watch for the
\* next entry of _watches; with no entry left to visit the loop is over.
\* When the destructor starts, main has returned: the calls of epoll::wait
\* and on_event are over and their locals (rc, buf) are gone.
DtorRmWatches ==
    /\ pc \in {"return", "rm_watch"}
    /\ teardowns' = IF pc = "return" THEN teardowns + 1 ELSE teardowns
    /\ IF rm_targets(watches) \ rmCalled = {}
       THEN /\ pc' = "close"
            /\ UNCHANGED <<rmCalled, kw, queue, errno>>
       ELSE LET w == next_rm(rm_targets(watches), rmCalled)
                k == inotify_rm_watch([kw |-> kw, queue |-> queue, errno |-> errno], w)
            IN  /\ rmCalled' = rmCalled \cup {w}
                /\ kw' = k.kw
                /\ queue' = k.queue
                /\ errno' = k.errno
                /\ pc' = IF rm_targets(watches) \ rmCalled' = {}
                         THEN "close" ELSE "rm_watch"
    /\ IF pc = "return"
       THEN /\ waitRc' = 0
            /\ readRc' = 0
            /\ cmdRc' = 0
            /\ lastRead' = <<>>
            /\ hlog' = <<>>
       ELSE UNCHANGED <<waitRc, readRc, cmdRc, lastRead, hlog>>
    /\ UNCHANGED <<ftsTodo, ftsBuild, cur, held, dirnames, filenames, watches, nextwd, fs,
                   nextino, mainRc, cmdCount, reads, opsLog, exitPath, skippedWake,
                   closed>>

\* lines 66-67: close(_infd)
DtorClose ==
    /\ pc = "close"
    /\ pc' = "done"
    /\ closed' = TRUE
    /\ UNCHANGED <<ftsTodo, ftsBuild, cur, held, dirnames, filenames, watches, kw, nextwd, errno,
                   fs, nextino, queue, mainRc, waitRc, readRc, cmdRc, lastRead, hlog,
                   cmdCount, reads, opsLog, exitPath, skippedWake, rmCalled,
                   teardowns>>

\* ------------------------------------------------------------ environment
\* the program has not reached epoll::wait yet
InSetup == pc \in {"watch_dir", "fts_read", "fts_stat", "walk_arm", "watch_file"}

\* other processes run whenever the program is between two of its steps,
\* until it has closed the inotify descriptor
EnvMayAct ==
    /\ pc # "done"
    /\ Len(opsLog) < MaxEnvOps
    /\ InSetup => Len(opsLog) < MaxSetupOps

EnvOp(o, p) == [op |-> o, path |-> p, setup |-> InSetup]

ParentIsDir(u) ==
    u.parent = "" \/ (u.parent \in DOMAIN fs /\ fs[u.parent].type = "dir")

DirFlag(u) == IF u.type = "dir" THEN {"IN_ISDIR"} ELSE {}

\* an event on the parent directory of u, naming u
EmitParent(q, u, type) ==
    IF u.parent = "" \/ type \notin WatchMask THEN q
    ELSE Emit(q, kw, fs[u.parent].ino, {type} \cup DirFlag(u), u.name)

\* mkdir or creat
FsCreate(u) ==
    /\ EnvMayAct
    /\ UPath(u) \notin DOMAIN fs
    /\ ParentIsDir(u)
    /\ fs' = Put(fs, UPath(u), Inode(nextino, u.type, TRUE))
    /\ nextino' = nextino + 1
    /\ queue' = EmitParent(queue, u, "IN_CREATE")
    /\ opsLog' = Append(opsLog, EnvOp("create", UPath(u)))
    /\ UNCHANGED <<pc, held, dirnames, filenames, kw, nextwd, errno>>
    /\ UNCHANGED progVars

\* write to a regular file
FsModify(u) ==
    /\ EnvMayAct
    /\ UPath(u) \in DOMAIN fs
    /\ u.type = "reg"
    /\ queue' = Emit(EmitParent(queue, u, "IN_MODIFY"), kw, fs[UPath(u)].ino,
                     {"IN_MODIFY"}, "")
    /\ opsLog' = Append(opsLog, EnvOp("modify", UPath(u)))
    /\ UNCHANGED <<pc, held, dirnames, filenames, kw, nextwd, errno, fs, nextino>>
    /\ UNCHANGED progVars

\* the kernel drops the watch of an inode that is gone: IN_IGNORED
DropWatch(q, k, ino) ==
    IF \E w \in DOMAIN k : k[w] = ino
    THEN LET w == CHOOSE x \in DOMAIN k : k[x] = ino
         IN  [queue |-> Enqueue(q, [wd |-> w, mask |-> {"IN_IGNORED"}, name |-> ""]),
              kw |-> Drop(k, w)]
    ELSE [queue |-> q, kw |-> k]

\* unlink or rmdir.  An inode that lost its last link and is not open anywhere
\* is gone at once: its watch is dropped (IN_IGNORED) before the directory
\* hears of the removal (IN_DELETE).  A watched inode that another process
\* holds open stays until that process closes it.
FsRemove(u) ==
    /\ EnvMayAct
    /\ UPath(u) \in DOMAIN fs
    /\ \A v \in Universe : v.parent = UPath(u) => UPath(v) \notin DOMAIN fs
    /\ LET ino == fs[UPath(u)].ino
           lastLink == \A p \in (DOMAIN fs) \ {UPath(u)} : fs[p].ino # ino
           watched == \E w \in DOMAIN kw : kw[w] = ino
       IN  \E open \in IF lastLink /\ watched THEN BOOLEAN ELSE {FALSE} :
              IF lastLink /\ ~open
              THEN LET d == DropWatch(queue, kw, ino)
                   IN  /\ queue' = EmitParent(d.queue, u, "IN_DELETE")
                       /\ kw' = d.kw
                       /\ held' = held
              ELSE /\ queue' = EmitParent(queue, u, "IN_DELETE")
                   /\ kw' = kw
                   /\ held' = IF open THEN held \cup {ino} ELSE held
    /\ fs' = Drop(fs, UPath(u))
    /\ opsLog' = Append(opsLog, EnvOp("remove", UPath(u)))
    /\ UNCHANGED <<pc, dirnames, filenames, nextwd, errno, nextino>>
    /\ UNCHANGED progVars

\* the last close of an unlinked inode
FsClose(ino) ==
    /\ EnvMayAct
    /\ ino \in held
    /\ LET d == DropWatch(queue, kw, ino)
       IN  queue' = d.queue /\ kw' = d.kw
    /\ held' = held \ {ino}
    /\ opsLog' = Append(opsLog, EnvOp("close", ""))
    /\ UNCHANGED <<pc, dirnames, filenames, nextwd, errno, fs, nextino>>
    /\ UNCHANGED progVars

Next ==
    \/ MainWatchDir
    \/ TraverseRead
    \/ TraverseStat
    \/ TraverseArm
    \/ MainWatchFile
    \/ WaitInterrupted
    \/ WaitFailed
    \/ WaitReady
    \/ OnEventRewatch
    \/ OnEventRun
    \/ OnEventCmdEnd
    \/ DtorRmWatches
    \/ DtorClose
    \/ \E u \in Universe : FsCreate(u)
    \/ \E u \in Universe : FsModify(u)
    \/ \E u \in Universe : FsRemove(u)
    \/ \E ino \in held : FsClose(ino)

Spec == Init /\ [][Next]_vars

TypeOK ==
    /\ pc \in {"watch_dir", "fts_read", "fts_stat", "walk_arm", "watch_file",
               "wait", "ev_rewatch", "ev_run", "cmd_run", "return", "rm_watch",
               "close", "done"}
    /\ cmdCount \in Nat

\* ================================================================ properties
Range(f) == {f[x] : x \in DOMAIN f}

\* path p has an active kernel watch whose identity resolves to p
Armed(p) ==
    /\ p \in DOMAIN fs
    /\ \E w \in DOMAIN kw : kw[w] = fs[p].ino /\ w \in DOMAIN watches /\ watches[w] = p

\* the loop is blocked in epoll_wait with nothing left to read
Quiescent == pc = "wait" /\ queue = <<>>

\* this step is a call of on_event whose read succeeded
ReadSucceeds == reads' = reads + 1 /\ readRc' # -1

\* this step makes the arm requests of on_event for the record it decoded
RewatchStep == pc = "ev_rewatch" /\ pc' = "ev_run"

\* this step resolves the record's identity for the debug output and starts
\* the command
RunStep == pc = "ev_run" /\ pc' = "cmd_run"

\* this step ends a call of on_event whose read succeeded
HandlerEnds == pc = "cmd_run" /\ pc' # "cmd_run"

\* the positions of the program inside the loop of epoll::wait, and after it
InLoop == {"wait", "ev_rewatch", "ev_run", "cmd_run"}
Stopped == {"return", "rm_watch", "close", "done"}

\* this step ends the walk of the directory step of main
WalkEnds == pc \in {"fts_read", "walk_arm"} /\ pc' = "watch_file"

ArmFailedAt(log, i) == log[i].op = "arm" /\ ~log[i].ok

ArmsIn(log) == {i \in 1..Len(log) : log[i].op = "arm"}

\* an out-of-band operation made while the loop was running
Op(o, p) == [op |-> o, path |-> p, setup |-> FALSE]

\* the entries of the trees of the roots: the roots and what is below them
ParentOf(p) == (CHOOSE u \in Universe : UPath(u) = p).parent
Below(p, r) == p = r \/ ParentOf(p) = r \/ (ParentOf(p) # "" /\ ParentOf(ParentOf(p)) = r)
TreeEntries(files, roots) ==
    {p \in DOMAIN files : \E i \in 1..Len(roots) : Below(p, roots[i])}

\* C1: a successful read of K records is followed by K applications of the
\* rewatch policy and K runs of the command, one per record.
C1_OncePerRecord ==
    [][HandlerEnds => CmdsIn(hlog') = Len(lastRead)]_vars

\* C2: every record of a read that reports the creation of a directory makes
\* the handler request a watch on resolve(identity) + "/" + name, record a
\* successful one in the table, and only then run the command.
C2_EveryCreatedDirArmed ==
    [][HandlerEnds =>
         \A i \in 1..Len(lastRead) :
            ( /\ {"IN_CREATE", "IN_ISDIR"} \subseteq lastRead[i].mask
              /\ lastRead[i].wd \in DOMAIN watches )
            => \E j \in 1..Len(hlog') :
                  /\ hlog'[j].op = "arm"
                  /\ hlog'[j].path = watches[lastRead[i].wd] \o "/" \o lastRead[i].name
                  /\ (hlog'[j].ok => /\ hlog'[j].wd \in DOMAIN watches'
                                     /\ watches'[hlog'[j].wd] = hlog'[j].path)
                  /\ \E k \in (j + 1)..Len(hlog') : hlog'[k].op = "cmd"]_vars

\* C3 (as claimed): for every record of a read that signals an invalidated
\* watch, the handler re-arms the path the table holds for the record's
\* identity, and after a successful re-arm the new identity resolves to that
\* path.
C3_RearmSamePath ==
    [][HandlerEnds =>
         \A i \in 1..Len(lastRead) :
            ( /\ "IN_IGNORED" \in lastRead[i].mask
              /\ lastRead[i].wd \in DOMAIN watches )
            => \E j \in ArmsIn(hlog') :
                  /\ hlog'[j].path = watches[lastRead[i].wd]
                  /\ (hlog'[j].ok => /\ hlog'[j].wd \in DOMAIN watches'
                                     /\ watches'[hlog'[j].wd] = hlog'[j].path)]_vars

\* C4: when the directory step reports success and nothing else has changed
\* the trees, every entry a physical walk of the roots reaches has an active
\* kernel watch and a table entry that resolves to its path.
C4_WalkCoversTree ==
    [][(WalkEnds /\ mainRc' = 0 /\ opsLog' = <<>>)
       => \A p \in TreeEntries(fs, dirnames) : Armed(p)']_vars

\* C5: when arming fails for an entry of the walk, the walk stops there, the
\* directory step reports failure and main returns without entering the loop.
C5_ArmFailureAbortsSetup ==
    [][(WalkEnds /\ \E i \in 1..Len(hlog') : ArmFailedAt(hlog', i))
       => /\ ArmFailedAt(hlog', Len(hlog'))
          /\ mainRc' # 0
          /\ pc' = "return"]_vars

\* C6: watching d, after mkdir d/sub and touch d/sub/f the command has run at
\* least twice and d/sub is armed, whatever the timing of the two operations.
C6_MkdirThenTouch ==
    ( /\ dirnames = <<RootDir>>
      /\ filenames = <<>>
      /\ opsLog = <<Op("create", "d/sub"), Op("create", "d/sub/f")>>
      /\ Quiescent )
    => (cmdCount >= 2 /\ Armed("d/sub"))

\* C7: watching d, after d is deleted and recreated the watch on d is armed
\* again once the loop has read what was queued, so that a later modification
\* inside d runs the command.
C7_RecreatedRootRearmed ==
    ( /\ dirnames = <<RootDir>>
      /\ filenames = <<>>
      /\ opsLog = <<Op("remove", RootDir), Op("create", RootDir)>>
      /\ held = {}
      /\ Quiescent )
    => Armed(RootDir)

\* C8: watching the single file a, one modification of it runs the command
\* exactly once: never more than once, and once when the event has been read.
C8_SingleAppendRunsOnce ==
    ( /\ dirnames = <<>>
      /\ filenames = <<RootFile>>
      /\ opsLog = <<Op("modify", RootFile)>> )
    => /\ cmdCount <= 1
       /\ (Quiescent => cmdCount = 1)

\* C8 witness: the modification of a has been read and the command has run
C8_Witness ==
    /\ dirnames = <<>>
    /\ filenames = <<RootFile>>
    /\ opsLog = <<Op("modify", RootFile)>>
    /\ Quiescent
    /\ reads = 1
    /\ cmdCount = 1

\* C9: the loop leaves RUNNING only when epoll_wait fails with an error other
\* than EINTR or when the read returns -1; a successful read keeps it running
\* whatever the record, the outcome of an arm or the status of the command;
\* once stopped, nothing is read and no command runs.
C9_StopOnlyOnFailure ==
    [][ /\ (pc = "wait" /\ pc' \notin InLoop)
           => \/ (waitRc' = -1 /\ errno' # "EINTR")
              \/ (waitRc' # -1 /\ reads' = reads + 1 /\ readRc' = -1)
        /\ ReadSucceeds => pc' \in {"ev_rewatch", "ev_run"}
        /\ pc \in InLoop \ {"wait"} => pc' \in InLoop
        /\ pc \in Stopped
           => /\ pc' \in Stopped
              /\ reads' = reads
              /\ cmdCount' = cmdCount ]_vars

\* C9 witness: the loop is still running after a record whose arm failed and
\* whose command exited with a nonzero status
C9_Witness ==
    /\ pc = "wait"
    /\ reads >= 1
    /\ readRc # -1
    /\ cmdRc = 256
    /\ \E i \in 1..Len(hlog) : ArmFailedAt(hlog, i)

\* C10: on every return of main the destructor runs once: inotify_rm_watch is
\* called for every identity of the table, none of them is left in the kernel,
\* and only then is the descriptor closed.
C10_TeardownOnce ==
    /\ exitPath # "none" => pc \in Stopped
    /\ pc \in {"close", "done"}
       => /\ teardowns = 1
          /\ rmCalled = DOMAIN watches
          /\ (DOMAIN kw) \cap (DOMAIN watches) = {}
    /\ pc = "rm_watch" => (teardowns = 1 /\ rmCalled \subseteq DOMAIN watches)
    /\ pc \notin {"rm_watch", "close", "done"} => (teardowns = 0 /\ rmCalled = {})
    /\ closed <=> pc = "done"

\* C10 witness: main returned after the loop stopped, with watches to disarm
C10_Witness ==
    /\ pc = "done"
    /\ exitPath = "loop"
    /\ closed
    /\ \E w \in rmCalled : w > 0
    /\ -1 \in rmCalled

\* C11: a record that is neither a 'watch invalidated' record nor the creation
\* of a directory causes no arm request.
C11_OnlyRewatchRecordsArm ==
    [][( /\ HandlerEnds
         /\ "IN_IGNORED" \notin lastRead[1].mask
         /\ ~({"IN_CREATE", "IN_ISDIR"} \subseteq lastRead[1].mask)
         /\ lastRead[1].wd \in DOMAIN watches )
       => ArmsIn(hlog') = {}]_vars

\* C12: a rejected arm request leaves the table as it was: a step of the walk
\* or of the handler whose arm requests all fail does not change the table.
C12_FailedArmLeavesTable ==
    [][ /\ (pc = "walk_arm" /\ pc' # "walk_arm" /\ ArmFailedAt(hlog', Len(hlog')))
           => watches' = watches
        /\ (RewatchStep /\ \A i \in ArmsIn(hlog') : ~hlog'[i].ok)
           => watches' = watches ]_vars

\* C13: an interruption of the wait never keeps later events from the handler:
\* every wake that reports the descriptor readable is followed by a call of
\* on_event, also after a wait that failed with EINTR.
C13_InterruptionDoesNotStarve ==
    ~skippedWake

\* C14 (as claimed): while the loop runs, the identity of every record the
\* event source holds or has delivered has an entry in the table, also after
\* an invalidation and re-arm.
C14_NoOrphanIdentity ==
    pc \in InLoop =>
       /\ \A i \in 1..Len(queue) : queue[i].wd \in DOMAIN watches
       /\ \A i \in 1..Len(lastRead) : lastRead[i].wd \in DOMAIN watches

\* C14 (amended): while the loop runs, the identity of every record the event
\* source holds or has delivered, the queue-overflow record apart, has an
\* entry in the table, also after an invalidation and re-arm.
C14_NoOrphanButOverflow ==
    pc \in InLoop =>
       /\ \A i \in 1..Len(queue) :
             queue[i] # OverflowEvent => queue[i].wd \in DOMAIN watches
       /\ \A i \in 1..Len(lastRead) :
             lastRead[i] # OverflowEvent => lastRead[i].wd \in DOMAIN watches

\* C14 witness: the record of an invalidated watch of the root file has been
\* delivered and the file re-armed: the old and the new identity are both in
\* the table
C14_Witness ==
    /\ pc = "wait"
    /\ lastRead # <<>>
    /\ "IN_IGNORED" \in lastRead[1].mask
    /\ lastRead[1].wd \notin DOMAIN kw
    /\ watches[lastRead[1].wd] = RootFile
    /\ Len(hlog) >= 1
    /\ hlog[1].op = "arm"
    /\ hlog[1].ok
    /\ hlog[1].wd \in DOMAIN kw
    /\ watches[hlog[1].wd] = RootFile

\* arm i of log succeeded and no later arm of log returned the same identity
LatestArm(log, i) ==
    /\ log[i].ok
    /\ \A j \in ArmsIn(log) : (j > i /\ log[j].ok) => log[j].wd # log[i].wd

\* C15 (as claimed): a path armed with identity i is what i resolves to after
\* the step that armed it, and while i stays active no step changes what i
\* resolves to.
C15_ResolveStable ==
    [][ /\ \A i \in ArmsIn(hlog') :
             (hlog'[i].ok /\ hlog'[i].wd \in DOMAIN kw')
             => watches'[hlog'[i].wd] = hlog'[i].path
        /\ \A w \in DOMAIN watches :
             (w \in DOMAIN kw /\ w \in DOMAIN kw') => watches'[w] = watches[w] ]_vars

\* C15 (amended): an active identity resolves to the path of the latest
\* successful arm that returned it, and what it resolves to changes only by
\* such an arm.
C15_ResolveLatestArm ==
    [][ /\ \A i \in ArmsIn(hlog') :
             (LatestArm(hlog', i) /\ hlog'[i].wd \in DOMAIN kw')
             => watches'[hlog'[i].wd] = hlog'[i].path
        /\ \A w \in DOMAIN watches :
             (w \in DOMAIN kw /\ w \in DOMAIN kw' /\ watches'[w] # watches[w])
             => \E j \in ArmsIn(hlog') :
                   /\ LatestArm(hlog', j)
                   /\ hlog'[j].wd = w
                   /\ hlog'[j].path = watches'[w] ]_vars

\* C15 witness: two path strings were armed with the same identity, which now
\* resolves to the later one
C15_Witness ==
    \E i, j \in ArmsIn(hlog) :
       /\ i < j
       /\ hlog[i].ok
       /\ LatestArm(hlog, j)
       /\ hlog[i].wd = hlog[j].wd
       /\ hlog[i].path # hlog[j].path
       /\ hlog[j].wd \in DOMAIN kw
       /\ watches[hlog[j].wd] = hlog[j].path

\* C16: when the re-arm made for a "watch invalidated" record fails, the loop
\* keeps running, the command is run once for the record, the failed request
\* and the rest of the handling take away no kernel watch and no queued
\* record, and the next wake-up is dispatched to the handler.
C16_RearmFailureTolerated ==
    [][ /\ ( /\ RewatchStep
             /\ "IN_IGNORED" \in lastRead[1].mask
             /\ ArmFailedAt(hlog', 1) )
           => /\ kw' = kw
              /\ queue' = queue
        /\ ( /\ RunStep
             /\ "IN_IGNORED" \in lastRead[1].mask
             /\ Len(hlog) >= 1
             /\ ArmFailedAt(hlog, 1) )
           => /\ cmdCount' = cmdCount + 1
              /\ kw' = kw
              /\ queue' = queue
        /\ ( /\ HandlerEnds
             /\ "IN_IGNORED" \in lastRead[1].mask
             /\ Len(hlog) >= 1
             /\ ArmFailedAt(hlog, 1) )
           => /\ pc' = "wait"
              /\ CmdsIn(hlog') = 1
              /\ kw' = kw
              /\ queue' = queue
              /\ ~WaitContinues(0, errno') ]_vars

\* C16 witness: the re-arm of the root file failed (its path is stored under
\* the failed identity), and a later record of a watch that is still active
\* has been read and the command run for it
C16_Witness ==
    /\ pc = "wait"
    /\ -1 \in DOMAIN watches
    /\ watches[-1] = RootFile
    /\ RootFile \notin DOMAIN fs
    /\ readRc # -1
    /\ lastRead # <<>>
    /\ "IN_IGNORED" \notin lastRead[1].mask
    /\ lastRead[1].wd \in DOMAIN kw
    /\ cmdCount >= 2
    /\ \E i \in 1..Len(hlog) : hlog[i].op = "cmd"

\* C17 (as claimed): no read fails (and so stops the loop) because the next
\* queued record does not fit in the buffer.
C17_ReadNeverTooSmall == readRc # -1

\* C18 (as claimed): a walk of trees nothing else changes, that completes with
\* every arm successful, issues one arm request per entry of the trees of its
\* roots: as many requests as entries, none armed twice, none skipped.
C18_OneArmPerEntry ==
    [][ ( /\ WalkEnds
          /\ mainRc' = 0
          /\ opsLog' = <<>>
          /\ \A i \in ArmsIn(hlog') : hlog'[i].ok )
        => /\ {hlog'[i].path : i \in ArmsIn(hlog')} = TreeEntries(fs, dirnames)
           /\ Cardinality(ArmsIn(hlog')) = Cardinality(TreeEntries(fs, dirnames)) ]_vars

\* C19 (as claimed): each path is the value of at most one table entry among
\* the identities arm recorded, and the identity the latest successful arm
\* returned resolves to the path it armed.
C19_OneEntryPerPath ==
    /\ \A w1, w2 \in DOMAIN watches :
          (w1 >= 0 /\ w2 >= 0 /\ watches[w1] = watches[w2]) => w1 = w2
    /\ \A i \in ArmsIn(hlog) :
          LatestArm(hlog, i) => watches[hlog[i].wd] = hlog[i].path

\* C20 (as claimed): the handler's calls of get_file add no entry to the
\* table: every identity that is new in the table after a step of the handler
\* was returned by an arm request of that step.
C20_ResolveReadOnly ==
    [][ /\ RewatchStep
           => \A w \in DOMAIN watches' :
                 \/ w \in DOMAIN watches
                 \/ \E i \in ArmsIn(hlog') : hlog'[i].wd = w
        /\ RunStep => DOMAIN watches' = DOMAIN watches ]_vars

\* this step is a return of epoll_wait that reports the descriptor readable
Wake == pc = "wait" /\ opsLog' = opsLog /\ waitRc' >= 0

\* C21 (as claimed): every wake performs exactly one read; a read that fails
\* runs no command and makes no arm request; a read that succeeds is followed
\* by at least one run of the command, whatever the record and the outcome of
\* its arms.
C21_OneReadPerWake ==
    [][ /\ Wake => reads' = reads + 1
        /\ (reads' = reads + 1 /\ readRc' = -1)
           => /\ cmdCount' = cmdCount
              /\ hlog' = <<>>
              /\ watches' = watches
              /\ kw' = kw
              /\ pc' = "return"
        /\ HandlerEnds => CmdsIn(hlog') >= 1 ]_vars

====
